---------------------------- MODULE Spec2Model ----------------------------
(***************************************************************************)
(* A model of the crawler of src/main.py: the per-page request_handler,    *)
(* download_file with its www retry, the history file that every handler   *)
(* loads and rewrites, the error log, the banned-pattern file and the      *)
(* engine's enqueue call.                                                  *)
(*                                                                         *)
(* Text is modelled as a sequence of tokens.  The separators "/", ".",     *)
(* "?", "#" are tokens of their own and every other token is a word that   *)
(* holds no separator, so that rfind, splitext, basename and urlparse act  *)
(* on token positions exactly as the Python functions act on character     *)
(* positions.                                                              *)
(***************************************************************************)
EXTENDS Integers, Sequences, FiniteSets, Bags, TLC

VARIABLES
    history,    \* conf/download_history.json: [ok, arr]; arr is the JSON array as a
                \* bag (its order is never read), ok = FALSE a file that does not parse
    errorLog,   \* conf/error_links.txt: the sequence of lines appended
    files,      \* downloaded_files/...: set of [path, url, complete]
    enqueued,   \* calls of context.enqueue_links: set of [h, i, url, exclude]
    banned,     \* conf/banned.txt: the sequence of its lines
    scn,        \* the pages handed to the handlers by the crawl engine
    pc,         \* per handler: where request_handler stands
    idx,        \* per handler: index of the link the for loop is at
    processed,  \* per handler: the local set processed_files
    filename,   \* per handler: the local filename of the link being downloaded
    reqs,       \* per handler: URLs requested by the running download_file call
    first,      \* per handler: how the first request of the running call ended
    second,     \* per handler: how its request to the www url ended
    result,     \* per handler: what download_file returned
    logged,     \* per handler: error-log lines appended by the running call
    faults,     \* I/O failures injected so far
    edits,      \* external edits of conf/banned.txt so far
    fetched,    \* per URL: calls of download_file so far
    written,    \* per URL: successful open(save_path, 'wb') so far
    succeeded,  \* set of [url, path]: calls of download_file that returned True
    outcome,    \* per handler: how each finished link of its page ended
    probe,      \* input of a function taken on its own: a link to classify, a set to save
    probeOut    \* its result

vars == <<history, errorLog, files, enqueued, banned, scn, pc, idx, processed,
          filename, reqs, first, second, result, logged, faults, edits, fetched, written,
          succeeded, outcome, probe, probeOut>>

-----------------------------------------------------------------------------
(* Bounds of the model *)

NumHandlers == 2     \* page handlers the engine runs concurrently
MaxFaults == 2       \* I/O failures (history write, file open) in one run
MaxEdits == 1        \* external edits of the banned-pattern file in one run

Handlers == 1..NumHandlers

-----------------------------------------------------------------------------
(* Text helpers: str.rfind, str.lower, urllib.parse.unquote *)

\* s.rfind(t), as a position from 1; 0 when t does not occur
RFind(s, t) ==
    LET hits == {i \in 1..Len(s) : s[i] = t}
    IN  IF hits = {} THEN 0 ELSE CHOOSE i \in hits : \A j \in hits : j <= i

\* s[from:], with from a position from 1
Tail_(s, from) == IF from > Len(s) THEN <<>> ELSE SubSeq(s, from, Len(s))

LowerTok(t) ==
    CASE t = "PDF" -> "pdf"
      [] t = "Pdf" -> "pdf"
      [] t = "JPG" -> "jpg"
      [] t = "CSV" -> "csv"
      [] t = "A" -> "a"
      [] OTHER -> t

Lower(s) == [i \in 1..Len(s) |-> LowerTok(s[i])]

UnquoteTok(t) ==
    CASE t = "%2E" -> "."
      [] t = "%2F" -> "/"
      [] t = "%3F" -> "?"
      [] OTHER -> t

unquote(s) == [i \in 1..Len(s) |-> UnquoteTok(s[i])]

\* os.path.splitext(p)[1]: the extension starts at the last dot, if that dot lies
\* after the last "/" and some character that is not a dot stands between them
splitext_ext(p) ==
    LET sepIndex == RFind(p, "/")
        dotIndex == RFind(p, ".")
    IN  IF dotIndex > sepIndex
           /\ \E k \in (sepIndex + 1)..(dotIndex - 1) : p[k] # "."
        THEN Tail_(p, dotIndex)
        ELSE <<>>

\* os.path.basename(p)
basename(p) == Tail_(p, RFind(p, "/") + 1)

-----------------------------------------------------------------------------
(* URLs: urlparse(url).netloc, add_www_to_url, urljoin *)

HasScheme(u) == Len(u) >= 3 /\ u[1] = "http:" /\ u[2] = "/" /\ u[3] = "/"

\* position after the netloc: the first "/", "?" or "#" from position 4, or Len+1
NetlocEnd(u) ==
    LET stops == {i \in 4..Len(u) : u[i] \in {"/", "?", "#"}}
    IN  IF stops = {} THEN Len(u) + 1 ELSE CHOOSE i \in stops : \A j \in stops : i <= j

netloc(u) == IF HasScheme(u) THEN SubSeq(u, 4, NetlocEnd(u) - 1) ELSE <<>>

\* netloc.startswith('www.')
StartsWithWww(n) == Len(n) >= 2 /\ n[1] = "www" /\ n[2] = "."

add_www_to_url(u) ==
    IF ~StartsWithWww(netloc(u))
    THEN SubSeq(u, 1, 3) \o <<"www", ".">> \o Tail_(u, 4)
    ELSE u

\* urljoin(base, ref) for the references of the model: an absolute reference is
\* kept, a relative one replaces what follows the last "/" of the base
urljoin(base, ref) ==
    IF HasScheme(ref) THEN ref ELSE SubSeq(base, 1, RFind(base, "/")) \o ref

-----------------------------------------------------------------------------
(* Classification *)

DocumentExts == {"pdf", "doc", "docx", "txt", "rtf"}
SpreadsheetExts == {"xls", "xlsx", "csv"}
PresentationExts == {"ppt", "pptx"}
ImageExts == {"jpg", "jpeg", "png", "gif", "bmp", "webp"}
DataExts == {"json", "xml", "yaml", "yml"}

DOCUMENT_TYPES ==
    [e \in DocumentExts \cup SpreadsheetExts \cup PresentationExts
           \cup ImageExts \cup DataExts |->
        CASE e \in DocumentExts -> "documents"
          [] e \in SpreadsheetExts -> "spreadsheets"
          [] e \in PresentationExts -> "presentations"
          [] e \in ImageExts -> "images"
          [] OTHER -> "data"]

\* file_extension in DOCUMENT_TYPES: the keys are a dot and one word
InDocumentTypes(ext) ==
    Len(ext) = 2 /\ ext[1] = "." /\ ext[2] \in DOMAIN DOCUMENT_TYPES

\* url = link.get('href') or link.get('src')
LinkUrl(link) == IF link.href # <<>> THEN link.href ELSE link.src

absolute_url(page, link) == urljoin(page, LinkUrl(link))
decoded_url(page, link) == unquote(absolute_url(page, link))
file_extension(page, link) == splitext_ext(Lower(decoded_url(page, link)))

\* the category the handler files the link under, "none" for a link that is no file
Classify(page, link) ==
    IF InDocumentTypes(file_extension(page, link))
    THEN DOCUMENT_TYPES[file_extension(page, link)[2]]
    ELSE "none"


-----------------------------------------------------------------------------
(* The pages of the model: links as BeautifulSoup yields them *)

PageUrl == <<"http:", "/", "/", "s", "/", "index">>

LinkA == [name |-> "a", href |-> <<"http:", "/", "/", "s", "/", "a", ".", "pdf">>, src |-> <<>>]
LinkB == [name |-> "img", href |-> <<>>, src |-> <<"b", ".", "jpg">>]
LinkR == [name |-> "a", href |-> <<"http:", "/", "/", "s", "/", "x", "/", "a", ".", "pdf">>, src |-> <<>>]
LinkW == [name |-> "a", href |-> <<"http:", "/", "/", "www", ".", "s", "/", "c", ".", "pdf">>, src |-> <<>>]
LinkX == [name |-> "a", href |-> <<"http:", "/", "/", "s", "/", "x">>, src |-> <<>>]
LinkP == [name |-> "a", href |-> <<"page2", ".", "html">>, src |-> <<>>]
LinkI == [name |-> "img", href |-> <<>>, src |-> <<"http:", "/", "/", "s", "/", "i">>]
LinkN == [name |-> "a", href |-> <<>>, src |-> <<>>]

\* what the engine hands out: handler h is called with page h of a scenario
Scenarios ==
    { << <<LinkN, LinkI>>, <<LinkX>>, <<LinkP>> >>,
      << <<LinkA, LinkA>>, <<LinkB>>, <<LinkN>> >>,
      << <<LinkA, LinkX>>, <<LinkR, LinkP>>, <<LinkN>> >>,
      << <<LinkW, LinkX>>, <<LinkA>>, <<LinkP>> >> }

Range(s) == {s[i] : i \in 1..Len(s)}

AllLinks == UNION {UNION {Range(page) : page \in Range(sc)} : sc \in Scenarios}

\* a URL that an earlier run downloaded
OldUrl == <<"http:", "/", "/", "s", "/", "old", ".", "pdf">>

\* what conf/download_history.json holds when the run starts
InitialHistory == {OldUrl}

Urls == {absolute_url(PageUrl, l) : l \in AllLinks} \cup {OldUrl}

\* contents of conf/banned.txt: one glob per line; "[" is a line Glob() rejects
BannedContents ==
    { <<>>,
      << <<"[">>, <<"*", "page2", ".", "html">>, <<"*", ".", "pdf">> >> }

PageOf(h) == IF h <= Len(scn) THEN scn[h] ELSE <<>>
Link(h) == PageOf(h)[idx[h]]
Url(h) == absolute_url(PageUrl, Link(h))

-----------------------------------------------------------------------------
(* History store *)

\* a load that takes the except branch whatever the file holds
load_download_history_unparsed == {}

\* load_download_history(): set(json.load(f)), set() when the content does not parse
load_download_history == IF history.ok THEN BagToSet(history.arr) ELSE {}

\* a save that writes to another file than the one load_download_history reads
save_download_history_elsewhere(file, set, mode) == file

\* What save_download_history(set) leaves in the file.  mode "ok": the JSON array
\* list(set), every member once; "open": os.makedirs or open raised, the file is
\* as before; "dump": the write raised after open had truncated the file.
save_download_history(file, set, mode) ==
    CASE mode = "ok" -> [ok |-> TRUE, arr |-> SetToBag(set)]
      [] mode = "open" -> file
      [] OTHER -> [ok |-> FALSE, arr |-> EmptyBag]

WriteModes == {"ok", "open", "dump"}

-----------------------------------------------------------------------------
(* Link filter *)

RECURSIVE GlobMatch(_, _)
GlobMatch(p, s) ==
    IF p = <<>> THEN s = <<>>
    ELSE IF p[1] = "*"
         THEN GlobMatch(Tail(p), s) \/ (s # <<>> /\ GlobMatch(p, Tail(s)))
         ELSE s # <<>> /\ p[1] = s[1] /\ GlobMatch(Tail(p), Tail(s))

\* Glob(b.strip()) raises ValueError
Rejected(line) == "[" \in Range(line)

\* the lines as they were when the run started, read once and kept
blinks_read_once == <<>>

\* blinks = f.readlines(), read from conf/banned.txt for the link at hand
blinks == banned

\* banned_patterns, built from the lines of conf/banned.txt
banned_patterns(lines) == SelectSeq(lines, LAMBDA b : ~Rejected(b))

\* any(blink.match(url) for blink in banned_patterns)
IsBanned(url, patterns) == \E k \in 1..Len(patterns) : GlobMatch(patterns[k], url)

\* a routing that does not look at the tag
IsAnchorUnchecked(link) == TRUE

\* if link.name == 'a'
IsAnchor(link) == link.name = "a"

-----------------------------------------------------------------------------
(* File fetcher: the answers a request can get *)

Status200 == [status |-> 200, dns |-> FALSE, msg |-> ""]
Status404 == [status |-> 404, dns |-> FALSE, msg |-> ""]
\* exceptions (status 0): the resolver's failure as Windows and as POSIX word it,
\* a timeout, and an OSError of open() or of the body stream
ExcGaiWindows == [status |-> 0, dns |-> TRUE, msg |-> "[Errno 11001] getaddrinfo failed"]
ExcGaiPosix == [status |-> 0, dns |-> TRUE, msg |-> "[Errno -2] Name or service not known"]
ExcTimeout == [status |-> 0, dns |-> FALSE, msg |-> "Connection timeout"]
ExcIO == [status |-> 0, dns |-> FALSE, msg |-> "[Errno 13] Permission denied"]
Pending == [status |-> -1, dns |-> FALSE, msg |-> ""]

Answers == {Status200, Status404, ExcGaiWindows, ExcGaiPosix, ExcTimeout}

\* a test that takes every response for a success
IsSuccessStatusAny(a) == a.status # 0

\* if response.status == 200
IsSuccessStatus(a) == a.status = 200

\* 'getaddrinfo failed' in str(e)
GetaddrinfoFailedIn(e) == e.msg = "[Errno 11001] getaddrinfo failed"

\* the test that guards the www retry
ShouldRetryWithWww(e, url) == GetaddrinfoFailedIn(e) /\ ~StartsWithWww(netloc(url))

\* a filename taken from the lowercased URL that the extension is taken from
FilenameOfLowered(page, link, n) == basename(Lower(decoded_url(page, link)))

\* the filename of a file link; n is len(processed_files) after the insertion
Filename(page, link, n) ==
    LET name == basename(decoded_url(page, link))
    IN  IF name = <<>> \/ splitext_ext(name) = <<>>
        THEN <<"file_", ToString(n)>> \o file_extension(page, link)
        ELSE name

\* os.path.join(base_dir, subdir, filename)
save_path(page, link, name) ==
    <<"downloaded_files", "/", Classify(page, link), "/">> \o name

SavePath(h) == save_path(PageUrl, Link(h), filename[h])

\* a rollback that forgets to remove the url
DiscardForgotten(set, u) == set

\* processed_files.discard(absolute_url)
Discard(set, u) == set \ {u}


-----------------------------------------------------------------------------
(* Initial states *)

Idle ==
    /\ pc = [h \in Handlers |-> IF PageOf(h) = <<>> THEN "done" ELSE "loop"]
    /\ idx = [h \in Handlers |-> 1]
    /\ processed = [h \in Handlers |-> {}]
    /\ filename = [h \in Handlers |-> <<>>]
    /\ reqs = [h \in Handlers |-> <<>>]
    /\ first = [h \in Handlers |-> Pending]
    /\ second = [h \in Handlers |-> Pending]
    /\ result = [h \in Handlers |-> "None"]
    /\ logged = [h \in Handlers |-> 0]
    /\ outcome = [h \in Handlers |-> <<>>]

\* create_default_files has run: the three files of conf/ exist, banned.txt empty
Init ==
    /\ history = [ok |-> TRUE, arr |-> SetToBag(InitialHistory)]
    /\ errorLog = <<>>
    /\ files = {}
    /\ enqueued = {}
    /\ banned = <<>>
    /\ scn \in Scenarios
    /\ Idle
    /\ faults = 0
    /\ edits = 0
    /\ fetched = [u \in Urls |-> 0]
    /\ written = [u \in Urls |-> 0]
    /\ succeeded = {}
    /\ probe = [page |-> PageUrl, link |-> LinkN]
    /\ probeOut = [done |-> FALSE, ext |-> <<>>, category |-> "none", filename |-> <<>>]

-----------------------------------------------------------------------------
(* request_handler *)

\* the for loop goes to the next link, or the handler returns
Advance(h, how) ==
    /\ idx' = [idx EXCEPT ![h] = @ + 1]
    /\ pc' = [pc EXCEPT ![h] = IF idx[h] + 1 > Len(PageOf(h)) THEN "done" ELSE "loop"]
    /\ outcome' = [outcome EXCEPT ![h] = Append(@, how)]

AtLink(h) == pc[h] = "loop" /\ idx[h] <= Len(PageOf(h))

IsFileLink(h) == InDocumentTypes(file_extension(PageUrl, Link(h)))

\* if url: a link with neither href nor src is passed over
SkipNoUrl(h) ==
    /\ AtLink(h)
    /\ LinkUrl(Link(h)) = <<>>
    /\ Advance(h, "nourl")
    /\ UNCHANGED <<history, errorLog, files, enqueued, banned, scn, processed, filename,
                   reqs, first, second, result, logged, faults, edits, fetched, written,
                   succeeded, probe, probeOut>>

\* a file link that the re-read history holds: "Already crawled"
SkipKnown(h) ==
    /\ AtLink(h)
    /\ LinkUrl(Link(h)) # <<>>
    /\ IsFileLink(h)
    /\ Url(h) \in load_download_history
    /\ processed' = [processed EXCEPT ![h] = load_download_history]
    /\ Advance(h, "skipped")
    /\ UNCHANGED <<history, errorLog, files, enqueued, banned, scn, filename,
                   reqs, first, second, result, logged, faults, edits, fetched, written,
                   succeeded, probe, probeOut>>

\* a file link that the re-read history does not hold: it is added to the local
\* set, its filename derived, and download_file called, which sends its first
\* request and waits for the answer
StartDownload(h) ==
    /\ AtLink(h)
    /\ LinkUrl(Link(h)) # <<>>
    /\ IsFileLink(h)
    /\ Url(h) \notin load_download_history
    /\ processed' = [processed EXCEPT ![h] = load_download_history \cup {Url(h)}]
    /\ filename' = [filename EXCEPT ![h] =
                      Filename(PageUrl, Link(h), Cardinality(load_download_history \cup {Url(h)}))]
    /\ fetched' = [fetched EXCEPT ![Url(h)] = @ + 1]
    /\ reqs' = [reqs EXCEPT ![h] = <<Url(h)>>]
    /\ first' = [first EXCEPT ![h] = Pending]
    /\ second' = [second EXCEPT ![h] = Pending]
    /\ result' = [result EXCEPT ![h] = "None"]
    /\ logged' = [logged EXCEPT ![h] = 0]
    /\ pc' = [pc EXCEPT ![h] = "get1"]
    /\ UNCHANGED <<history, errorLog, files, enqueued, banned, scn, idx, faults, edits,
                   written, succeeded, outcome, probe, probeOut>>

\* a link that is no file: the banned patterns are read from conf/banned.txt, a
\* banned link is skipped, an anchor is handed to enqueue_links with the patterns
RouteLink(h) ==
    /\ AtLink(h)
    /\ LinkUrl(Link(h)) # <<>>
    /\ ~IsFileLink(h)
    /\ LET url == LinkUrl(Link(h))
           patterns == banned_patterns(blinks)
       IN  IF IsBanned(url, patterns)
           THEN /\ Advance(h, "banned")
                /\ UNCHANGED enqueued
           ELSE IF IsAnchor(Link(h))
           THEN /\ enqueued' = enqueued \cup
                       {[h |-> h, i |-> idx[h], url |-> url, exclude |-> patterns]}
                /\ Advance(h, "enqueued")
           ELSE /\ Advance(h, "ignored")
                /\ UNCHANGED enqueued
    /\ UNCHANGED <<history, errorLog, files, banned, scn, processed, filename,
                   reqs, first, second, result, logged, faults, edits, fetched, written,
                   succeeded, probe, probeOut>>

-----------------------------------------------------------------------------
(* download_file *)

\* the error branches: the original url is appended to conf/error_links.txt and
\* download_file returns False
LogAndFail(h) ==
    /\ errorLog' = Append(errorLog, Url(h))
    /\ logged' = [logged EXCEPT ![h] = @ + 1]
    /\ result' = [result EXCEPT ![h] = "False"]
    /\ pc' = [pc EXCEPT ![h] = "ret"]

\* open(save_path, 'wb') creates or truncates the destination
Opened(h) ==
    (files \ {f \in files : f.path = SavePath(h)})
        \cup {[path |-> SavePath(h), url |-> Url(h), complete |-> FALSE]}

\* the except branch of the first attempt
OnException(h, e) ==
    IF ShouldRetryWithWww(e, Url(h))
    THEN /\ reqs' = [reqs EXCEPT ![h] = Append(@, add_www_to_url(Url(h)))]
         /\ pc' = [pc EXCEPT ![h] = "get2"]
         /\ UNCHANGED <<errorLog, logged, result>>
    ELSE /\ LogAndFail(h)
         /\ UNCHANGED reqs

\* the first request is answered
Response1(h) ==
    /\ pc[h] = "get1"
    /\ \E a \in Answers, openFails \in BOOLEAN :
        /\ first' = [first EXCEPT ![h] = a]
        /\ openFails => IsSuccessStatus(a) /\ faults < MaxFaults
        /\ faults' = IF openFails THEN faults + 1 ELSE faults
        /\ IF IsSuccessStatus(a) /\ ~openFails
           THEN /\ files' = Opened(h)
                /\ written' = [written EXCEPT ![Url(h)] = @ + 1]
                /\ pc' = [pc EXCEPT ![h] = "stream1"]
                /\ UNCHANGED <<errorLog, logged, result, reqs>>
           ELSE IF IsSuccessStatus(a)
           THEN /\ OnException(h, ExcIO)
                /\ UNCHANGED <<files, written>>
           ELSE IF a.status = 0
           THEN /\ OnException(h, a)
                /\ UNCHANGED <<files, written>>
           ELSE \* any other status: the function runs off its end and returns None
                /\ result' = [result EXCEPT ![h] = "None"]
                /\ pc' = [pc EXCEPT ![h] = "ret"]
                /\ UNCHANGED <<files, written, errorLog, logged, reqs>>
    /\ UNCHANGED <<history, enqueued, banned, scn, idx, processed, filename, second,
                   edits, fetched, succeeded, outcome, probe, probeOut>>

\* the body is read in chunks of 8192 bytes and written, to its end
Completed(h) ==
    /\ files' = (files \ {f \in files : f.path = SavePath(h)})
                    \cup {[path |-> SavePath(h), url |-> Url(h), complete |-> TRUE]}
    /\ succeeded' = succeeded \cup {[url |-> Url(h), path |-> SavePath(h)]}
    /\ result' = [result EXCEPT ![h] = "True"]
    /\ pc' = [pc EXCEPT ![h] = "ret"]

\* the body of the first answer: streamed to its end, or a read raises
Stream1(h) ==
    /\ pc[h] = "stream1"
    /\ \/ /\ Completed(h)
          /\ UNCHANGED <<errorLog, logged, reqs>>
       \/ /\ OnException(h, ExcTimeout)
          /\ UNCHANGED <<files, succeeded>>
    /\ UNCHANGED <<history, enqueued, banned, scn, idx, processed, filename, first, second,
                   faults, edits, fetched, written, outcome, probe, probeOut>>

\* the request to the www url is answered
Response2(h) ==
    /\ pc[h] = "get2"
    /\ \E a \in Answers, openFails \in BOOLEAN :
        /\ second' = [second EXCEPT ![h] = a]
        /\ openFails => IsSuccessStatus(a) /\ faults < MaxFaults
        /\ faults' = IF openFails THEN faults + 1 ELSE faults
        /\ IF IsSuccessStatus(a) /\ ~openFails
           THEN /\ files' = Opened(h)
                /\ written' = [written EXCEPT ![Url(h)] = @ + 1]
                /\ pc' = [pc EXCEPT ![h] = "stream2"]
                /\ UNCHANGED <<errorLog, logged, result>>
           ELSE IF IsSuccessStatus(a) \/ a.status = 0
           THEN /\ LogAndFail(h)
                /\ UNCHANGED <<files, written>>
           ELSE \* any other status: the inner try ends and "return False" follows
                /\ result' = [result EXCEPT ![h] = "False"]
                /\ pc' = [pc EXCEPT ![h] = "ret"]
                /\ UNCHANGED <<files, written, errorLog, logged>>
    /\ UNCHANGED <<history, enqueued, banned, scn, idx, processed, filename, reqs, first,
                   edits, fetched, succeeded, outcome, probe, probeOut>>

\* the body of the www answer
Stream2(h) ==
    /\ pc[h] = "stream2"
    /\ \/ /\ Completed(h)
          /\ UNCHANGED <<errorLog, logged>>
       \/ /\ LogAndFail(h)
          /\ UNCHANGED <<files, succeeded>>
    /\ UNCHANGED <<history, enqueued, banned, scn, idx, processed, filename, reqs, first, second,
                   faults, edits, fetched, written, outcome, probe, probeOut>>

-----------------------------------------------------------------------------
(* request_handler, after download_file has returned *)

\* The history is saved: with the url on success, without it otherwise.  A save
\* that raises lands in the except branch, which discards the url and saves
\* again; when that save raises too the exception leaves request_handler.
Finish(h) ==
    /\ pc[h] = "ret"
    /\ \E m1, m2 \in WriteModes :
        LET u == Url(h)
            set1 == IF result[h] = "True" THEN processed[h] ELSE Discard(processed[h], u)
            set2 == Discard(set1, u)
            n == IF m1 = "ok" THEN 0 ELSE IF m2 = "ok" THEN 1 ELSE 2
        IN  /\ m1 = "ok" => m2 = "ok"
            /\ faults + n <= MaxFaults
            /\ faults' = faults + n
            /\ history' =
                 IF m1 = "ok"
                 THEN save_download_history(history, set1, m1)
                 ELSE save_download_history(save_download_history(history, set1, m1), set2, m2)
            /\ processed' = [processed EXCEPT ![h] = IF m1 = "ok" THEN set1 ELSE set2]
            /\ IF n = 2
               THEN /\ pc' = [pc EXCEPT ![h] = "aborted"]
                    /\ outcome' = [outcome EXCEPT ![h] = Append(@, "aborted")]
                    /\ UNCHANGED idx
               ELSE Advance(h, IF result[h] = "True" /\ n = 0 THEN "downloaded"
                               ELSE IF result[h] = "True" THEN "unrecorded"
                               ELSE "failed")
    /\ UNCHANGED <<errorLog, files, enqueued, banned, scn, filename, reqs, first, second, result,
                   logged, edits, fetched, written, succeeded, probe, probeOut>>

-----------------------------------------------------------------------------
(* The environment *)

\* conf/banned.txt is edited while the crawl runs
EditBanned ==
    /\ edits < MaxEdits
    /\ edits' = edits + 1
    /\ banned' \in BannedContents \ {banned}
    /\ UNCHANGED <<history, errorLog, files, enqueued, scn, pc, idx, processed, filename,
                   reqs, first, second, result, logged, faults, fetched, written, succeeded,
                   outcome, probe, probeOut>>

Next ==
    \/ \E h \in Handlers : SkipNoUrl(h)
    \/ \E h \in Handlers : SkipKnown(h)
    \/ \E h \in Handlers : StartDownload(h)
    \/ \E h \in Handlers : RouteLink(h)
    \/ \E h \in Handlers : Response1(h)
    \/ \E h \in Handlers : Stream1(h)
    \/ \E h \in Handlers : Response2(h)
    \/ \E h \in Handlers : Stream2(h)
    \/ \E h \in Handlers : Finish(h)
    \/ EditBanned

Spec == Init /\ [][Next]_vars


-----------------------------------------------------------------------------
(* main: the counts of the summary *)

\* initial_file_count = len(load_download_history()), before the crawl
initial_file_count == Cardinality(InitialHistory)

\* new_downloads = len(final_history) - initial_file_count, after the crawl
new_downloads == Cardinality(load_download_history) - initial_file_count

-----------------------------------------------------------------------------
(* One handler at a time: the engine visits a single page *)

SeqPages ==
    { <<LinkA, LinkA>>,
      <<LinkN, LinkA, LinkA, LinkX>>,
      <<LinkW, LinkW, LinkI>> }

InitSeq ==
    /\ history = [ok |-> TRUE, arr |-> SetToBag(InitialHistory)]
    /\ errorLog = <<>>
    /\ files = {}
    /\ enqueued = {}
    /\ banned = <<>>
    /\ scn \in {<<page>> : page \in SeqPages}
    /\ Idle
    /\ faults = 0
    /\ edits = 0
    /\ fetched = [u \in Urls |-> 0]
    /\ written = [u \in Urls |-> 0]
    /\ succeeded = {}
    /\ probe = [page |-> PageUrl, link |-> LinkN]
    /\ probeOut = [done |-> FALSE, ext |-> <<>>, category |-> "none", filename |-> <<>>]

SpecSeq == InitSeq /\ [][Next]_vars

-----------------------------------------------------------------------------
(* The classification of a link, on its own *)

ProbeHosts == { <<"s">>, <<"s", ".", "json">>, <<"www", ".", "s">> }
ProbePaths ==
    { <<>>, <<"/">>, <<"/", "a", ".", "pdf">>, <<"/", "A", ".", "PDF">>,
      <<"/", "a", "%2E", "pdf">>, <<"/", "d">>, <<"/", "x", ".", "y", "/", "d">>,
      <<"/", "a", ".", "exe">>, <<"/", "x", "/", "b", ".", "jpg">> }
ProbeQueries == { <<>>, <<"?", "id=7">>, <<"?", "id=7", ".", "csv">> }
ProbeFragments == { <<>>, <<"#", "top">>, <<"#", "t", ".", "png">> }

ProbeLinks ==
    { [name |-> "a", href |-> <<"http:", "/", "/">> \o host \o path \o q \o f, src |-> <<>>] :
        host \in ProbeHosts, path \in ProbePaths, q \in ProbeQueries, f \in ProbeFragments }

InitClassify ==
    /\ history = [ok |-> TRUE, arr |-> SetToBag(InitialHistory)]
    /\ errorLog = <<>>
    /\ files = {}
    /\ enqueued = {}
    /\ banned = <<>>
    /\ scn = <<>>
    /\ Idle
    /\ faults = 0
    /\ edits = 0
    /\ fetched = [u \in Urls |-> 0]
    /\ written = [u \in Urls |-> 0]
    /\ succeeded = {}
    /\ probe \in [page : {PageUrl}, link : ProbeLinks]
    /\ probeOut = [done |-> FALSE, ext |-> <<>>, category |-> "none", filename |-> <<>>]

\* the handler computes file_extension and looks it up in DOCUMENT_TYPES; for a
\* file link that the history does not hold it adds the URL to the set it
\* loaded and derives the filename
ClassifyProbe ==
    /\ ~probeOut.done
    /\ LET url == absolute_url(probe.page, probe.link)
           isFile == InDocumentTypes(file_extension(probe.page, probe.link))
           processed_files == load_download_history \cup {url}
       IN  probeOut' = [done |-> TRUE,
                        ext |-> file_extension(probe.page, probe.link),
                        category |-> Classify(probe.page, probe.link),
                        filename |-> IF isFile /\ url \notin load_download_history
                                     THEN Filename(probe.page, probe.link,
                                                   Cardinality(processed_files))
                                     ELSE <<>>]
    /\ UNCHANGED <<history, errorLog, files, enqueued, banned, scn, pc, idx, processed,
                   filename, reqs, first, second, result, logged, faults, edits, fetched,
                   written, succeeded, outcome, probe>>

NextClassify == ClassifyProbe

SpecClassify == InitClassify /\ [][NextClassify]_vars

-----------------------------------------------------------------------------
(* The history file, on its own: a set is saved, loaded and saved again *)

\* what the file may hold before the save: an array, an array that names a URL
\* twice, a content that does not parse
FilesBefore ==
    { [ok |-> TRUE, arr |-> SetToBag(InitialHistory)],
      [ok |-> TRUE, arr |-> SetToBag(InitialHistory) (+) SetToBag(InitialHistory)],
      [ok |-> FALSE, arr |-> EmptyBag] }

InitRoundTrip ==
    /\ history \in FilesBefore
    /\ errorLog = <<>>
    /\ files = {}
    /\ enqueued = {}
    /\ banned = <<>>
    /\ scn = <<>>
    /\ Idle
    /\ faults = 0
    /\ edits = 0
    /\ fetched = [u \in Urls |-> 0]
    /\ written = [u \in Urls |-> 0]
    /\ succeeded = {}
    /\ probe \in [set : SUBSET Urls]
    /\ probeOut = [stage |-> "given", loaded |-> {}]

\* save_download_history(S)
SaveGiven ==
    /\ probeOut.stage = "given"
    /\ history' = save_download_history(history, probe.set, "ok")
    /\ probeOut' = [probeOut EXCEPT !.stage = "saved"]
    /\ UNCHANGED <<errorLog, files, enqueued, banned, scn, pc, idx, processed, filename,
                   reqs, first, second, result, logged, faults, edits, fetched, written,
                   succeeded, outcome, probe>>

\* load_download_history()
LoadSaved ==
    /\ probeOut.stage = "saved"
    /\ probeOut' = [stage |-> "loaded", loaded |-> load_download_history]
    /\ UNCHANGED <<history, errorLog, files, enqueued, banned, scn, pc, idx, processed,
                   filename, reqs, first, second, result, logged, faults, edits, fetched,
                   written, succeeded, outcome, probe>>

\* save_download_history of the set that was loaded
SaveLoaded ==
    /\ probeOut.stage = "loaded"
    /\ history' = save_download_history(history, probeOut.loaded, "ok")
    /\ probeOut' = [probeOut EXCEPT !.stage = "resaved"]
    /\ UNCHANGED <<errorLog, files, enqueued, banned, scn, pc, idx, processed, filename,
                   reqs, first, second, result, logged, faults, edits, fetched, written,
                   succeeded, outcome, probe>>

NextRoundTrip == SaveGiven \/ LoadSaved \/ SaveLoaded

SpecRoundTrip == InitRoundTrip /\ [][NextRoundTrip]_vars


-----------------------------------------------------------------------------
(* Properties *)

Finished(h) == pc[h] \in {"done", "aborted"}

\* the link of handler h's page that ended as outcome[h][i]
UrlAt(h, i) == absolute_url(PageUrl, PageOf(h)[i])

\* handler h takes the step that ends its link: request_handler after download_file
FinishStep(h) == pc[h] = "ret" /\ pc'[h] # "ret"

\* C1: when every handler has finished, the persisted history holds every URL
\* whose fetch returned Success during the run.  Stated for the runs in which no
\* write failed, so that only the interleaving of the handlers can break it.
C1_NoLostUpdates ==
    ((\A h \in Handlers : Finished(h)) /\ faults = 0)
        => \A d \in succeeded : d.url \in load_download_history

\* C2: a handler whose fetch of u was a Failure and that persists the history
\* for that link leaves u out of the persisted history
C2_FailureRollback ==
    [][\A h \in Handlers :
          (FinishStep(h) /\ result[h] # "True" /\ pc'[h] # "aborted")
              => (history'.ok /\ ~BagIn(Url(h), history'.arr))]_vars

C2_Witness ==
    \E h \in Handlers :
        /\ outcome[h] # <<>>
        /\ outcome[h][Len(outcome[h])] = "failed"
        /\ fetched[UrlAt(h, Len(outcome[h]))] > 0
        /\ UrlAt(h, Len(outcome[h])) \notin load_download_history

SkipLeavesAll ==
    \A h \in Handlers :
        (AtLink(h) /\ LinkUrl(Link(h)) # <<>> /\ IsFileLink(h)
            /\ Url(h) \in load_download_history /\ idx'[h] # idx[h])
            => UNCHANGED <<history, errorLog, files, enqueued, fetched, written>>

\* a URL whose download was recorded is skipped when it comes next
RecordedOnce ==
    \A h \in Handlers : \A i \in 1..(Len(outcome[h]) - 1) :
        (outcome[h][i] = "downloaded" /\ UrlAt(h, i) = UrlAt(h, i + 1))
            => /\ outcome[h][i + 1] = "skipped"
               /\ fetched[UrlAt(h, i)] = 1
               /\ written[UrlAt(h, i)] = 1
               /\ CopiesIn(UrlAt(h, i), history.arr) = 1

C4_WwwRetryCount ==
    \A h \in Handlers :
        /\ Len(reqs[h]) <= 2
        /\ pc[h] = "ret" =>
             IF first[h].status = 0 /\ first[h].dns /\ ~StartsWithWww(netloc(Url(h)))
             THEN reqs[h] = <<Url(h), add_www_to_url(Url(h))>>
             ELSE reqs[h] = <<Url(h)>>

\* C5: a call of download_file that does not return Success has appended the
\* original URL to the error log exactly once, a call that returns Success nothing
C5_ErrorLogOnEveryFailure ==
    \A h \in Handlers :
        pc[h] = "ret" =>
            IF result[h] = "True"
            THEN logged[h] = 0
            ELSE /\ logged[h] = 1
                 /\ errorLog # <<>>
                 /\ \E k \in 1..Len(errorLog) : errorLog[k] = Url(h)

\* C6: a link that matches a pattern of the banned file, as it is when the link
\* is processed, is neither downloaded nor enqueued
C6_BannedNeverFetchedNorEnqueued ==
    [][\A h \in Handlers :
          (AtLink(h) /\ LinkUrl(Link(h)) # <<>>
              /\ IsBanned(LinkUrl(Link(h)), banned_patterns(banned)))
              => /\ pc'[h] # "get1"
                 /\ fetched' = fetched
                 /\ ~\E e \in enqueued' \ enqueued : e.h = h]_vars

\* C7: no failure of an I/O operation on one link ends the page handler: it goes
\* on to the remaining links of its page
C7_HandlerNeverAborts == \A h \in Handlers : pc[h] # "aborted"

\* C8: two distinct URLs that were both downloaded successfully were written to
\* two distinct destination paths
C8_OneFilePerResource ==
    \A x \in succeeded, y \in succeeded : x.url # y.url => x.path # y.path

\* the step that routes a link that is no file
RouteStep ==
    \A h \in Handlers :
        (AtLink(h) /\ LinkUrl(Link(h)) # <<>> /\ ~IsFileLink(h) /\ idx'[h] # idx[h])
            => LET url == LinkUrl(Link(h))
                   patterns == banned_patterns(banned)
                   new == enqueued' \ enqueued
               IN  /\ (new # {}) <=> (Link(h).name = "a" /\ ~IsBanned(url, patterns))
                   /\ new \subseteq
                        {[h |-> h, i |-> idx[h], url |-> url, exclude |-> patterns]}

\* what has been enqueued, against what the handlers have gone through
EnqueuedAreAnchors ==
    /\ \A e \in enqueued :
          /\ PageOf(e.h)[e.i].name = "a"
          /\ Classify(PageUrl, PageOf(e.h)[e.i]) = "none"
          /\ e.url = LinkUrl(PageOf(e.h)[e.i])
          /\ ~IsBanned(e.url, e.exclude)
    /\ \A h \in Handlers : \A i \in 1..Len(outcome[h]) :
          (\E e \in enqueued : e.h = h /\ e.i = i) <=> outcome[h][i] = "enqueued"

PathOf(u) ==
    LET ends == {i \in NetlocEnd(u)..Len(u) : u[i] \in {"?", "#"}}
        stop == IF ends = {} THEN Len(u) + 1 ELSE CHOOSE i \in ends : \A j \in ends : i <= j
    IN  SubSeq(u, NetlocEnd(u), stop - 1)

PathExtension(u) ==
    LET path == Lower(PathOf(unquote(u)))
    IN  IF RFind(path, ".") = 0 THEN <<>> ELSE Tail_(path, RFind(path, "."))

CategoryOfPath(u) ==
    IF InDocumentTypes(PathExtension(u)) THEN DOCUMENT_TYPES[PathExtension(u)[2]] ELSE "none"

C10_ClassifiedByPathExtension ==
    probeOut.done => probeOut.category = CategoryOfPath(absolute_url(probe.page, probe.link))

\* handler h takes the step that checks a link that is no file
CheckStep(h) ==
    AtLink(h) /\ LinkUrl(Link(h)) # <<>> /\ ~IsFileLink(h) /\ idx'[h] # idx[h]

\* C11: the banned patterns are read anew for every link that is no file: the
\* link is skipped as banned exactly when a pattern of conf/banned.txt as it
\* is at that check matches it, and the patterns handed on are those of that
\* content, so that a check after an edit never uses the set read before it
C11_PatternsReadPerLink ==
    [][\A h \in Handlers :
          CheckStep(h)
              => LET now == banned_patterns(banned)
                 IN  /\ (outcome'[h][idx[h]] = "banned") <=> IsBanned(LinkUrl(Link(h)), now)
                     /\ \A e \in enqueued' \ enqueued : e.exclude = now]_vars

\* one link was checked and enqueued before the edit, another banned after it
C11_Witness ==
    /\ edits >= 1
    /\ \E e \in enqueued : e.exclude = <<>>
    /\ \E h \in Handlers : \E i \in 1..Len(outcome[h]) :
          /\ outcome[h][i] = "banned"
          /\ ~IsBanned(LinkUrl(PageOf(h)[i]), <<>>)

OtherStatus(a) == a.status \notin {200, 0, -1}

\* what the running call of download_file has been answered so far
SuccessNeeds200 ==
    \A h \in Handlers :
        pc[h] = "ret" =>
            /\ result[h] = "True" => (first[h].status = 200 \/ second[h].status = 200)
            /\ OtherStatus(first[h]) => (result[h] # "True" /\ Len(reqs[h]) = 1)
            /\ OtherStatus(second[h]) => result[h] # "True"

\* the steps of download_file and the step of request_handler that follows it
SuccessStep ==
    \A h \in Handlers :
        LET streaming == {"stream1", "stream2"}
            answer == IF pc[h] = "get1" THEN first'[h] ELSE second'[h]
            body == [path |-> SavePath(h), url |-> Url(h), complete |-> TRUE]
        IN  \* the body is streamed only after a status 200
            /\ (pc[h] \notin streaming /\ pc'[h] \in streaming) => answer.status = 200
            \* True is returned exactly by the step that streams the body to its end
            /\ (pc[h] # "ret" /\ pc'[h] = "ret")
                  => (result'[h] = "True" <=> (pc[h] \in streaming /\ body \in files'))
            \* any other status: nothing is written and no True is returned
            /\ (pc[h] \in {"get1", "get2"} /\ pc'[h] # pc[h] /\ OtherStatus(answer))
                  => (files' = files /\ written' = written
                        /\ pc'[h] = "ret" /\ result'[h] # "True")
            \* and the handler that saves the history then saves it without the URL
            /\ (FinishStep(h) /\ pc'[h] # "aborted"
                  /\ (OtherStatus(first[h]) \/ OtherStatus(second[h])))
                  => (outcome'[h][idx[h]] = "failed"
                        /\ history'.ok /\ ~BagIn(Url(h), history'.arr))

\* C14: download_file returns True exactly when one of its two requests was
\* answered with status 200 and the body was streamed to the destination with
\* no exception; an answer with another status writes nothing, is a failure to
\* the handler, and the history the handler saves does not hold the URL
C14_SuccessOnlyOn200 == []SuccessNeeds200 /\ [][SuccessStep]_vars

\* one link ended as failed on a 404 with nothing written for it, another was
\* downloaded through the www retry
C14_Witness ==
    /\ \E h \in Handlers :
          /\ Finished(h)
          /\ first[h].status = 404
          /\ \E i \in 1..Len(outcome[h]) :
                /\ outcome[h][i] = "failed"
                /\ written[UrlAt(h, i)] = 0
                /\ UrlAt(h, i) \notin load_download_history
    /\ \E h \in Handlers :
          /\ Finished(h)
          /\ second[h].status = 200
          /\ result[h] = "True"
          /\ outcome[h][Len(outcome[h])] = "downloaded"

\* the URLs that some handler has fetched with Success and then saved in the
\* history
Recorded ==
    UNION {{UrlAt(h, i) : i \in {j \in 1..Len(outcome[h]) : outcome[h][j] = "downloaded"}} :
              h \in Handlers}

\* C15: once a handler has fetched u with Success and saved a history that
\* holds u, no handler that comes to a link to u afterwards calls download_file
\* for u.  Stated for the runs in which no write failed, so that only the
\* interleaving of the handlers can break it.
C15_NoFetchAfterRecorded ==
    [][\A h \in Handlers :
          (pc[h] = "loop" /\ pc'[h] = "get1" /\ faults = 0) => Url(h) \notin Recorded]_vars

\* C16: every URL the history file holds was in it when the run started or is
\* one that download_file has returned True for during the run; a URL that is
\* only in a handler's local set, its fetch under way or failed, is not in the
\* file
C16_HistoryHoldsOnlyCompleted ==
    /\ load_download_history \subseteq InitialHistory \cup {d.url : d \in succeeded}
    /\ history.ok => BagToSet(history.arr) \subseteq InitialHistory \cup {d.url : d \in succeeded}

\* one download is recorded while a link that failed and a fetch that is under
\* way, its URL in the handler's local set, are not in the file
C16_Witness ==
    /\ \E u \in load_download_history : u \notin InitialHistory
    /\ \E h \in Handlers :
          /\ pc[h] \in {"get1", "stream1", "get2", "stream2"}
          /\ Url(h) \in processed[h]
          /\ Url(h) \notin load_download_history
          /\ \E i \in 1..Len(outcome[h]) : outcome[h][i] = "failed"

\* C17: every URL that the history file held when the run started is in it in
\* every later state, and the count of new downloads that main reports when
\* the handlers have finished is not negative
C17_PriorHistoryPreserved ==
    /\ InitialHistory \subseteq load_download_history
    /\ (\A h \in Handlers : Finished(h)) => new_downloads >= 0

\* some handler is still at a link to u, between open(save_path, 'wb') and the
\* save of the history that ends the link
InProgress(u) ==
    \E h \in Handlers : pc[h] \in {"stream1", "stream2", "ret"} /\ Url(h) = u

\* C18: once the handler that wrote it has finished the link, a file under
\* downloaded_files is there only if the fetch was a Success, the body written
\* to its end, and its URL is in the persisted history; a fetch that failed
\* leaves no file that open() created or truncated.  Stated for the runs in
\* which no open and no history write failed.
C18_NoFileWithoutRecord ==
    faults = 0 =>
        \A f \in files :
            InProgress(f.url) \/ (f.complete /\ f.url \in load_download_history)

=============================================================================
